---------------------------- MODULE Spec2Model ----------------------------
(***************************************************************************)
(* Model of the Parrilladas Familiares backend (backend/main.py,           *)
(* backend/security.py, backend/models.py): the credential service         *)
(* (bcrypt hashing and verification behind /register and /login) and the   *)
(* identifier boundary (ObjectId validation, parsing and serialisation     *)
(* behind the product, order and reservation endpoints).                   *)
(*                                                                         *)
(* Text is a sequence of one-character strings, bytes are integers 0..255. *)
(***************************************************************************)
EXTENDS Integers, Sequences, FiniteSets, TLC

VARIABLES
    bcryptRejectsLong, \* the installed bcrypt raises on >72 bytes (5.x) or truncates (<5)
    users,             \* collection "users": set of documents
    reg,               \* register_user requests in flight: position and locals
    registered,        \* history: the <<email, password>> of every /register answered 201
    products,          \* collection "products"
    orders,            \* collection "orders"
    reservations,      \* collection "reservations"
    nextId,            \* number of identifiers the store has assigned so far
    last               \* the last completed call: its input, storage calls and outcome

vars == <<bcryptRejectsLong, users, reg, registered, products, orders, reservations, nextId, last>>

credVars == <<bcryptRejectsLong, users, reg, registered>>
idVars == <<products, orders, reservations>>

-----------------------------------------------------------------------------
(* Bounds of the model *)

MaxDocs == 2     \* documents the store assigns an id to, per behaviour
NumSalts == 2    \* distinct salts gensalt() may draw

\* the /register requests that may be in flight together
Requests == {"r1", "r2"}

-----------------------------------------------------------------------------
(* Text helpers *)

Rep(c, n) == [i \in 1..n |-> c]

HexLower == <<"0","1","2","3","4","5","6","7","8","9","a","b","c","d","e","f">>
HexUpper == <<"0","1","2","3","4","5","6","7","8","9","A","B","C","D","E","F">>

IsHexDigit(c) == \E i \in 1..16 : HexLower[i] = c \/ HexUpper[i] = c

HexVal(c) == (CHOOSE i \in 1..16 : HexLower[i] = c \/ HexUpper[i] = c) - 1

\* the characters bytes.fromhex skips between byte pairs
AsciiWhitespace == {" ", "\t", "\n", "\r", "\f"}

\* bytes.fromhex(s) succeeds: whitespace is skipped before each pair of hex digits
RECURSIVE HexDecodable(_)
HexDecodable(s) ==
    IF s = <<>> THEN TRUE
    ELSE IF Head(s) \in AsciiWhitespace THEN HexDecodable(Tail(s))
    ELSE /\ Len(s) >= 2
         /\ IsHexDigit(s[1])
         /\ IsHexDigit(s[2])
         /\ HexDecodable(SubSeq(s, 3, Len(s)))

\* bytes.fromhex(s), for a decodable s
RECURSIVE FromHex(_)
FromHex(s) ==
    IF s = <<>> THEN <<>>
    ELSE IF Head(s) \in AsciiWhitespace THEN FromHex(Tail(s))
    ELSE <<16 * HexVal(s[1]) + HexVal(s[2])>> \o FromHex(SubSeq(s, 3, Len(s)))

\* binascii.hexlify(b): two lowercase digits per byte
Hexlify(b) ==
    [i \in 1..(2 * Len(b)) |->
        IF i % 2 = 1 THEN HexLower[(b[(i + 1) \div 2] \div 16) + 1]
                     ELSE HexLower[(b[i \div 2] % 16) + 1]]

-----------------------------------------------------------------------------
(* bson.ObjectId as the endpoints and PyObjectId use it *)

OidStrLen == 24   \* characters of an identifier's textual form
OidLen == 12      \* bytes of an identifier

InvalidId == [t |-> "InvalidId", v |-> <<>>]

Oid(b) == [t |-> "ObjectId", v |-> b]
Str(s) == [t |-> "str", v |-> s]

\* ObjectId(s) for a str s: the 24-character test, then bytes.fromhex
ObjectId(s) ==
    IF Len(s) = OidStrLen /\ HexDecodable(s) THEN Oid(FromHex(s)) ELSE InvalidId

\* ObjectId.is_valid(s): falsy input is invalid, otherwise try ObjectId(s)
is_valid(s) == s # <<>> /\ ObjectId(s) # InvalidId

\* str(oid)
OidToStr(o) == Hexlify(o.v)

\* PyObjectId's validator: ValueError unless is_valid, else ObjectId(v)
validate_object_id(s) ==
    IF ~ is_valid(s) THEN [t |-> "ValueError", v |-> <<>>] ELSE ObjectId(s)

\* The identifier the store assigns to the n-th inserted document
OidBase == <<101, 171, 205, 239, 1, 35, 69, 103, 137, 10, 188>>
NewObjectId(n) == Oid(Append(OidBase, 160 + n))


-----------------------------------------------------------------------------
(* Documents: records keyed by field name; dict() and the driver's calls *)

None == [t |-> "None", v |-> <<>>]

Without(d, keys) == [k \in (DOMAIN d) \ keys |-> d[k]]

With(d, key, val) == [k \in (DOMAIN d) \cup {key} |-> IF k = key THEN val ELSE d[k]]

\* model.dict(by_alias=True, exclude={"id"}): the field id travels under its alias "_id"
DictExcludeId(m) == Without(m, {"_id"})

Call(fn, coll) == [fn |-> fn, coll |-> coll]

\* insert_one: the store assigns _id when the document carries none
InsertOne(coll, doc, n) ==
    coll \cup {IF "_id" \in DOMAIN doc THEN doc ELSE With(doc, "_id", NewObjectId(n))}

\* find_one({"_id": oid}) / update_one's match: what the driver may answer.
\* An ObjectId that does not hold 12 bytes (bytes.fromhex skipped whitespace)
\* matches nothing; the encoder either pads it or the call fails.
FindById(coll, oid) ==
    IF Len(oid.v) = OidLen
    THEN IF \E d \in coll : d["_id"] = oid
         THEN {[hit |-> "doc", doc |-> CHOOSE d \in coll : d["_id"] = oid]}
         ELSE {[hit |-> "none", doc |-> None]}
    ELSE {[hit |-> "none", doc |-> None], [hit |-> "error", doc |-> None]}

BytesLess(a, b) ==
    \E i \in 1..Len(a) :
        /\ i <= Len(b)
        /\ a[i] < b[i]
        /\ \A j \in 1..(i - 1) : a[j] = b[j]

\* find({}).sort("_id", -1): newest first
RECURSIVE SortDesc(_)
SortDesc(S) ==
    IF S = {} THEN <<>>
    ELSE LET m == CHOOSE d \in S : \A e \in S : e = d \/ BytesLess(e["_id"].v, d["_id"].v)
         IN <<m>> \o SortDesc(S \ {m})

\* find({}): insertion order
RECURSIVE SortAsc(_)
SortAsc(S) ==
    IF S = {} THEN <<>>
    ELSE LET m == CHOOSE d \in S : \A e \in S : e = d \/ BytesLess(d["_id"].v, e["_id"].v)
         IN <<m>> \o SortAsc(S \ {m})

ListCap == 100

\* cursor.to_list(length=100)
ToList(q) == SubSeq(q, 1, IF Len(q) < ListCap THEN Len(q) ELSE ListCap)

\* order["id"] = str(order["_id"]); del order["_id"]
RenameId(d) == Without(With(d, "id", Str(OidToStr(d["_id"]))), {"_id"})

\* product["_id"] = str(product["_id"])
StringifyId(d) == IF "_id" \in DOMAIN d THEN With(d, "_id", Str(OidToStr(d["_id"]))) ELSE d

Reply(op, arg, status, calls, body) ==
    [op |-> op, arg |-> arg, status |-> status, calls |-> calls, body |-> body]

-----------------------------------------------------------------------------
(* Request inputs *)

Upper(s) ==
    [i \in DOMAIN s |->
        IF \E j \in 1..16 : HexLower[j] = s[i]
        THEN HexUpper[CHOOSE j \in 1..16 : HexLower[j] = s[i]]
        ELSE s[i]]

WireIds == {OidToStr(NewObjectId(n)) : n \in 1..(MaxDocs + 1)}

\* id path parameters: identifiers in wire form, the same in upper case, and
\* strings that are empty, short, long, or hold characters that are not hex digits
IdInputs ==
    WireIds
    \cup {Upper(OidToStr(NewObjectId(1)))}
    \cup {<<>>,
          <<"n","o","t","-","a","n","-","i","d">>,
          SubSeq(OidToStr(NewObjectId(1)), 1, OidStrLen - 1),
          OidToStr(NewObjectId(1)) \o <<"0">>,
          SubSeq(OidToStr(NewObjectId(1)), 1, OidStrLen - 1) \o <<"z">>,
          SubSeq(OidToStr(NewObjectId(1)), 1, OidStrLen - 2) \o <<" ", " ">>,
          Rep(" ", OidStrLen)}

\* the "_id" a request body may carry: null, or text run through validate_object_id
BodyIds == {None} \cup {Str(s) : s \in {OidToStr(NewObjectId(1)), <<"n","o","t","-","a","n","-","i","d">>}}

BodyIdOk(v) == v = None \/ validate_object_id(v.v).t = "ObjectId"

ProductoInputs ==
    [_id : BodyIds, nombre : {"Parrillada familiar", "Choripan"}, descripcion : {"d"},
     precio : {15990}, categoria : {"parrilladas"}, imagen : {"/static/p.png"},
     especificaciones : {<<>>}]

PedidoInputs ==
    [_id : BodyIds, items : {<<[producto_id |-> "x", cantidad |-> 1]>>},
     subtotal : {15990}, envio : {0}, descuento : {0}, total : {15990},
     metodo_entrega : {"retiro", "delivery"}, sucursal : {None}, hora_retiro : {None},
     direccion : {None}, comuna : {None}, telefono : {None}, horario_preferido : {None}]

ReservaInputs == [_id : BodyIds, nombre : {"Ana"}, personas : {4}]

Estados == {"Confirmada", "Cancelada"}


-----------------------------------------------------------------------------
(* bcrypt as backend/security.py calls it *)

BcryptMaxLen == 72     \* bytes of the password bcrypt reads
DefaultRounds == 12    \* gensalt()'s cost
MinRounds == 4
MaxRounds == 31

\* str.encode('utf-8'): one byte per ASCII character, two for "n~" (U+00F1)
Utf8Char(c) ==
    IF c = "a" THEN <<97>> ELSE IF c = "b" THEN <<98>> ELSE <<195, 177>>

RECURSIVE Utf8(_)
Utf8(s) == IF s = <<>> THEN <<>> ELSE Utf8Char(Head(s)) \o Utf8(Tail(s))

Returned(v) == [exc |-> "", val |-> v]
Raised(e) == [exc |-> e, val |-> FALSE]

\* "$<prefix>$<rounds>$<salt><digest>", as str or as bytes
HashText(kind, prefix, rounds, salt, digest) ==
    [t |-> kind, prefix |-> prefix, rounds |-> rounds, salt |-> salt, digest |-> digest]

Salts == 1..NumSalts

\* bcrypt.gensalt(): a fresh random salt with the default cost
gensalt(r) == HashText("bytes", "2b", DefaultRounds, r, <<>>)

\* the 23-byte digest: a one-way function of cost, salt and key with no
\* collisions, kept symbolic
EksBlowfish(rounds, salt, key) == <<rounds, salt, key>>

\* the salt argument parses as "$2?$NN$" followed by 22 salt characters
ValidSalt(h) ==
    /\ h.prefix \in {"2a", "2b", "2x", "2y"}
    /\ h.rounds \in MinRounds..MaxRounds
    /\ h.salt \in Salts

\* bcrypt.hashpw(password, salt): bytes only; the salt argument may be a whole
\* hash, of which the digest is ignored; the password is cut at 72 bytes, or
\* refused beyond them by the releases that no longer truncate
hashpw(password, salt) ==
    IF salt.t # "bytes" THEN Raised("TypeError")
    ELSE IF bcryptRejectsLong /\ Len(password) > BcryptMaxLen THEN Raised("ValueError")
    ELSE IF ~ ValidSalt(salt) THEN Raised("ValueError")
    ELSE Returned(HashText("bytes", salt.prefix, salt.rounds, salt.salt,
                  EksBlowfish(salt.rounds, salt.salt,
                      SubSeq(password, 1,
                          IF Len(password) < BcryptMaxLen THEN Len(password)
                                                          ELSE BcryptMaxLen))))

\* bcrypt.checkpw(password, hashed_password): hash again under the stored
\* salt and compare the two texts
checkpw(password, hashed) ==
    LET ret == hashpw(password, hashed)
    IN IF ret.exc # "" THEN ret ELSE Returned(ret.val = hashed)

\* security.verify_password(plain_password, hashed_password)
verify_password(plain_password, hashed_password) ==
    LET password_byte == Utf8(plain_password)
        hashed_byte == IF hashed_password.t = "str"
                       THEN [hashed_password EXCEPT !.t = "bytes"]
                       ELSE hashed_password
    IN checkpw(password_byte, hashed_byte)

\* security.get_password_hash(password), with the salt gensalt() drew
get_password_hash(password, r) ==
    LET password_byte == Utf8(password)
        salt == gensalt(r)
        hashed == hashpw(password_byte, salt)
    IN IF hashed.exc # "" THEN hashed ELSE Returned([hashed.val EXCEPT !.t = "str"])

-----------------------------------------------------------------------------
(* Secrets and stored hashes the calls are tried on *)

MinPasswordLen == 8    \* UserCreate.password: min_length

Secrets ==
    {<<>>, <<"a">>,
     Rep("a", MinPasswordLen), Rep("a", MinPasswordLen - 1) \o <<"b">>,
     Rep("a", BcryptMaxLen),
     Rep("a", BcryptMaxLen + 1), Rep("a", BcryptMaxLen) \o <<"b">>,
     Rep("a", BcryptMaxLen - 1) \o <<"n~">>}

\* passwords sent to /login: each registered one and a neighbour differing in
\* its last character
LoginSecrets ==
    {Rep("a", MinPasswordLen), Rep("a", MinPasswordLen - 1) \o <<"b">>,
     Rep("a", BcryptMaxLen + 1), Rep("a", BcryptMaxLen) \o <<"b">>}

Emails == {"ana@parrilladas.cl", "beto@parrilladas.cl"}

\* what a users document may hold as hashed_password when it was not written by
\* get_password_hash: another scheme's prefix, a cost out of range, a cut or
\* empty text (no salt), a hash whose digest is damaged
ForeignHashes ==
    {HashText("str", "1", DefaultRounds, 1, <<>>),
     HashText("str", "2b", MaxRounds + 1, 1, <<>>),
     HashText("str", "", 0, 0, <<>>),
     HashText("str", "2b", DefaultRounds, 0, <<>>),
     HashText("str", "2b", DefaultRounds, 1, <<>>)}

-----------------------------------------------------------------------------
(* Initial state: the process has connected, the collections are empty *)

NoReply == Reply("none", <<>>, 0, <<>>, <<>>)

NoUser == [email |-> "", password |-> <<>>, confirm |-> <<>>, terminos |-> FALSE]

Idle == [pc |-> "idle", user_in |-> NoUser]

Init ==
    /\ bcryptRejectsLong \in BOOLEAN
    /\ users = {}
    /\ reg = [p \in Requests |-> Idle]
    /\ registered = {}
    /\ products = {}
    /\ orders = {}
    /\ reservations = {}
    /\ nextId = 0
    /\ last = NoReply

-----------------------------------------------------------------------------
(* Product, order and reservation endpoints *)

\* POST /products
create_product(producto) ==
    /\ nextId < MaxDocs
    /\ IF ~ BodyIdOk(producto["_id"])
       THEN /\ last' = Reply("create_product", producto, 422, <<>>, <<>>)
            /\ UNCHANGED <<products, nextId>>
       ELSE LET prod_dict == DictExcludeId(producto)
            IN /\ products' = InsertOne(products, prod_dict, nextId + 1)
               /\ nextId' = nextId + 1
               /\ last' = Reply("create_product", prod_dict, 201,
                                <<Call("insert_one", "products")>>,
                                <<[id |-> Str(OidToStr(NewObjectId(nextId + 1))),
                                   mensaje |-> "Producto creado exitosamente"]>>)
    /\ UNCHANGED <<credVars, orders, reservations>>

\* POST /orders
create_order(pedido) ==
    /\ nextId < MaxDocs
    /\ IF ~ BodyIdOk(pedido["_id"])
       THEN /\ last' = Reply("create_order", pedido, 422, <<>>, <<>>)
            /\ UNCHANGED <<orders, nextId>>
       ELSE LET pedido_dict == With(DictExcludeId(pedido), "estado", "Ingresado")
            IN /\ orders' = InsertOne(orders, pedido_dict, nextId + 1)
               /\ nextId' = nextId + 1
               /\ last' = Reply("create_order", pedido_dict, 201,
                                <<Call("insert_one", "orders")>>,
                                <<[id |-> Str(OidToStr(NewObjectId(nextId + 1))),
                                   mensaje |-> "Pedido recibido exitosamente"]>>)
    /\ UNCHANGED <<credVars, products, reservations>>

\* POST /reservations
create_reservation(reserva) ==
    /\ nextId < MaxDocs
    /\ IF ~ BodyIdOk(reserva["_id"])
       THEN /\ last' = Reply("create_reservation", reserva, 422, <<>>, <<>>)
            /\ UNCHANGED <<reservations, nextId>>
       ELSE LET reserva_dict == DictExcludeId(reserva)
            IN /\ reservations' = InsertOne(reservations, reserva_dict, nextId + 1)
               /\ nextId' = nextId + 1
               /\ last' = Reply("create_reservation", reserva_dict, 201,
                                <<Call("insert_one", "reservations")>>,
                                <<[id |-> Str(OidToStr(NewObjectId(nextId + 1))),
                                   mensaje |-> "Reserva solicitada"]>>)
    /\ UNCHANGED <<credVars, products, orders>>

\* GET /products
get_products ==
    /\ LET found == ToList(SortAsc(products))
       IN last' = Reply("get_products", <<>>, 200, <<Call("find", "products")>>,
                        [i \in DOMAIN found |-> StringifyId(found[i])])
    /\ UNCHANGED <<credVars, idVars, nextId>>

\* GET /orders
get_orders ==
    /\ LET found == ToList(SortDesc(orders))
       IN last' = Reply("get_orders", <<>>, 200, <<Call("find", "orders")>>,
                        [i \in DOMAIN found |-> RenameId(found[i])])
    /\ UNCHANGED <<credVars, idVars, nextId>>

\* GET /reservations
get_reservations ==
    /\ LET found == ToList(SortDesc(reservations))
       IN last' = Reply("get_reservations", <<>>, 200, <<Call("find", "reservations")>>,
                        [i \in DOMAIN found |-> RenameId(found[i])])
    /\ UNCHANGED <<credVars, idVars, nextId>>

\* GET /products/{id}
get_product_detail(id) ==
    /\ IF ~ is_valid(id)
       THEN last' = Reply("get_product_detail", id, 400, <<>>, "ID de producto invalido")
       ELSE \E r \in FindById(products, ObjectId(id)) :
              last' = IF r.hit = "error"
                      THEN Reply("get_product_detail", id, 500,
                                 <<Call("find_one", "products")>>, "Internal Server Error")
                      ELSE IF r.hit = "none"
                      THEN Reply("get_product_detail", id, 404,
                                 <<Call("find_one", "products")>>, "Producto no encontrado")
                      ELSE Reply("get_product_detail", id, 200,
                                 <<Call("find_one", "products")>>, StringifyId(r.doc))
    /\ UNCHANGED <<credVars, idVars, nextId>>

\* GET /orders/{id}
get_single_order(id) ==
    /\ IF ~ is_valid(id)
       THEN last' = Reply("get_single_order", id, 400, <<>>, "ID invalido")
       ELSE \E r \in FindById(orders, ObjectId(id)) :
              last' = IF r.hit = "error"
                      THEN Reply("get_single_order", id, 500,
                                 <<Call("find_one", "orders")>>, "Internal Server Error")
                      ELSE IF r.hit = "none"
                      THEN Reply("get_single_order", id, 404,
                                 <<Call("find_one", "orders")>>, "Pedido no encontrado")
                      ELSE Reply("get_single_order", id, 200,
                                 <<Call("find_one", "orders")>>, RenameId(r.doc))
    /\ UNCHANGED <<credVars, idVars, nextId>>

\* PUT /reservations/{id}?estado=...
update_reservation_status(id, estado) ==
    /\ IF ~ is_valid(id)
       THEN /\ last' = Reply("update_reservation_status", id, 400, <<>>, "ID invalido")
            /\ UNCHANGED reservations
       ELSE \E r \in FindById(reservations, ObjectId(id)) :
              IF r.hit = "error"
              THEN /\ last' = Reply("update_reservation_status", id, 500,
                                    <<Call("update_one", "reservations")>>,
                                    "Internal Server Error")
                   /\ UNCHANGED reservations
              ELSE IF r.hit = "none"
              THEN /\ last' = Reply("update_reservation_status", id, 404,
                                    <<Call("update_one", "reservations")>>,
                                    "Reserva no encontrada")
                   /\ UNCHANGED reservations
              ELSE /\ reservations' =
                        (reservations \ {r.doc}) \cup {With(r.doc, "estado", estado)}
                   /\ last' = Reply("update_reservation_status", id, 200,
                                    <<Call("update_one", "reservations")>>,
                                    [mensaje |-> <<"Reserva actualizada a ", estado>>])
    /\ UNCHANGED <<credVars, products, orders, nextId>>

\* PyObjectId's validator applied to a string
ValidateObjectId(s) ==
    /\ last' = Reply("validate_object_id", s, 0, <<>>, validate_object_id(s))
    /\ UNCHANGED <<credVars, idVars, nextId>>

NextIdentity ==
    \/ \E producto \in ProductoInputs : create_product(producto)
    \/ \E pedido \in PedidoInputs : create_order(pedido)
    \/ \E reserva \in ReservaInputs : create_reservation(reserva)
    \/ get_products
    \/ get_orders
    \/ get_reservations
    \/ \E id \in IdInputs : get_product_detail(id)
    \/ \E id \in IdInputs : get_single_order(id)
    \/ \E id \in IdInputs, estado \in Estados : update_reservation_status(id, estado)
    \/ \E s \in IdInputs : ValidateObjectId(s)

SpecIdentity == Init /\ [][NextIdentity]_vars


-----------------------------------------------------------------------------
(* /register and /login *)

UserCreate(email, password, confirm, terminos) ==
    [email |-> email, password |-> password, confirm |-> confirm, terminos |-> terminos]

\* bodies of POST /register: acceptable ones for every email, and one for each
\* way validation refuses a body
UserCreateInputs ==
    {UserCreate(e, p, p, TRUE) :
        e \in Emails, p \in {Rep("a", MinPasswordLen), Rep("a", BcryptMaxLen + 1)}}
    \cup {UserCreate("ana@parrilladas.cl", Rep("a", MinPasswordLen - 1) \o <<"b">>,
                     Rep("a", MinPasswordLen - 1) \o <<"b">>, TRUE),
          UserCreate("ana@parrilladas.cl", <<"a">>, <<"a">>, TRUE),
          UserCreate("ana@parrilladas.cl", Rep("a", MinPasswordLen),
                     Rep("a", BcryptMaxLen + 1), TRUE),
          UserCreate("ana@parrilladas.cl", Rep("a", MinPasswordLen),
                     Rep("a", MinPasswordLen), FALSE)}

UserLoginInputs == [email : Emails, password : LoginSecrets]

\* find_one({"email": email}): the first matching document, or nothing
FindByEmail(email) ==
    LET found == SortAsc({d \in users : d.email = email})
    IN IF found = <<>> THEN None ELSE found[1]

\* the same document when the plain-text password is not deleted from it
UserDbData_KeepsPassword(user_in, hashed_password) ==
    With(Without(user_in, {"confirm"}), "hashed_password", hashed_password)

\* user_in.dict(exclude={"confirm"}), plus hashed_password, minus password
UserDbData(user_in, hashed_password) ==
    Without(With(Without(user_in, {"confirm"}), "hashed_password", hashed_password),
            {"password"})

\* register_user up to the answer of its first storage call
register_user(p, user_in) ==
    /\ reg[p].pc = "idle"
    /\ IF Len(user_in.password) < MinPasswordLen
       THEN /\ last' = Reply("register_user", user_in, 422, <<>>, "min_length")
            /\ UNCHANGED reg
       ELSE IF user_in.password # user_in.confirm
       THEN /\ last' = Reply("register_user", user_in, 400, <<>>,
                             "Las contrasenas no coinciden")
            /\ UNCHANGED reg
       ELSE IF ~ user_in.terminos
       THEN /\ last' = Reply("register_user", user_in, 400, <<>>,
                             "Debes aceptar los terminos")
            /\ UNCHANGED reg
       ELSE IF FindByEmail(user_in.email) # None
       THEN /\ last' = Reply("register_user", user_in, 400, <<Call("find_one", "users")>>,
                             "El correo ya esta registrado")
            /\ UNCHANGED reg
       ELSE /\ reg' = [reg EXCEPT ![p] = [pc |-> "checked", user_in |-> user_in]]
            /\ UNCHANGED last
    /\ UNCHANGED <<bcryptRejectsLong, users, registered, idVars, nextId>>

\* register_user resumed: hash, build the document, insert_one, then read it
\* back by the assigned _id and answer 201 (no handler alters or removes a
\* users document, so nothing can come between the insert and the read)
register_insert(p, r) ==
    /\ reg[p].pc = "checked"
    /\ nextId < MaxDocs
    /\ LET user_in == reg[p].user_in
           hashed_password == get_password_hash(user_in.password, r)
       IN IF hashed_password.exc # ""
          THEN /\ last' = Reply("register_user", user_in, 500, <<Call("find_one", "users")>>,
                                "Internal Server Error")
               /\ UNCHANGED <<users, nextId, registered>>
          ELSE LET user_db_data == UserDbData(user_in, hashed_password.val)
                   stored == InsertOne(users, user_db_data, nextId + 1)
               IN /\ users' = stored
                  /\ nextId' = nextId + 1
                  /\ \E found \in FindById(stored, NewObjectId(nextId + 1)) :
                        last' = Reply("register_user", user_in, 201,
                                      <<Call("find_one", "users"),
                                        Call("insert_one", "users"),
                                        Call("find_one", "users")>>,
                                      [sent |-> user_db_data, created_user |-> found.doc])
                  /\ registered' = registered \cup {<<user_in.email, user_in.password>>}
    /\ reg' = [reg EXCEPT ![p] = Idle]
    /\ UNCHANGED <<bcryptRejectsLong, idVars>>

\* POST /login
login_user(form_data) ==
    /\ LET user_db == FindByEmail(form_data.email)
           verified == IF user_db = None THEN Returned(FALSE)
                       ELSE verify_password(form_data.password, user_db.hashed_password)
       IN last' =
            IF verified.exc # ""
            THEN Reply("login_user", form_data, 500, <<Call("find_one", "users")>>,
                       "Internal Server Error")
            ELSE IF ~ verified.val
            THEN Reply("login_user", form_data, 400, <<Call("find_one", "users")>>,
                       "Credenciales incorrectas")
            ELSE Reply("login_user", form_data, 200, <<Call("find_one", "users")>>,
                       [message |-> "Sesion iniciada correctamente",
                        email |-> user_db.email,
                        role |-> IF "role" \in DOMAIN user_db THEN user_db.role
                                                               ELSE "cliente"])
    /\ UNCHANGED <<credVars, idVars, nextId>>

Next ==
    \/ \E p \in Requests, user_in \in UserCreateInputs : register_user(p, user_in)
    \/ \E p \in Requests, r \in Salts : register_insert(p, r)
    \/ \E form_data \in UserLoginInputs : login_user(form_data)

Spec == Init /\ [][Next]_vars

-----------------------------------------------------------------------------
(* The credential service called on its own *)

\* get_password_hash(password)
GetPasswordHash(password, r) ==
    /\ last' = Reply("get_password_hash", password, 0, <<>>, get_password_hash(password, r))
    /\ UNCHANGED <<credVars, idVars, nextId>>

\* verify_password(plain_password, hashed_password) on the hash just returned
VerifyFresh(plain_password) ==
    /\ last.op = "get_password_hash"
    /\ last.body.exc = ""
    /\ last' = Reply("verify_password",
                     [plain_password |-> plain_password, hashed_password |-> last.body.val,
                      secret |-> last.arg, origin |-> "get_password_hash"],
                     0, <<>>, verify_password(plain_password, last.body.val))
    /\ UNCHANGED <<credVars, idVars, nextId>>

\* verify_password(plain_password, hashed_password) on text the service did not write
VerifyForeign(plain_password, hashed_password) ==
    /\ last' = Reply("verify_password",
                     [plain_password |-> plain_password, hashed_password |-> hashed_password,
                      secret |-> <<>>, origin |-> "foreign"],
                     0, <<>>, verify_password(plain_password, hashed_password))
    /\ UNCHANGED <<credVars, idVars, nextId>>

NextCredential ==
    \/ \E password \in Secrets, r \in Salts : GetPasswordHash(password, r)
    \/ \E plain_password \in Secrets : VerifyFresh(plain_password)
    \/ \E plain_password \in Secrets, h \in ForeignHashes : VerifyForeign(plain_password, h)

SpecCredential == Init /\ [][NextCredential]_vars


-----------------------------------------------------------------------------
(* Vocabulary of the properties *)

\* the canonical textual form of an identifier: 24 characters, each in 0-9a-f
CanonicalId(s) ==
    /\ Len(s) = OidStrLen
    /\ \A i \in 1..Len(s) : \E j \in 1..16 : HexLower[j] = s[i]

IdOps == {"get_product_detail", "get_single_order", "update_reservation_status"}

CreateOps == {"create_product", "create_order", "create_reservation"}

ListOps == {"get_products", "get_orders", "get_reservations"}

\* the collection an id-taking operation looks into
CollectionOf(op) ==
    IF op = "get_product_detail" THEN products
    ELSE IF op = "get_single_order" THEN orders
    ELSE reservations

\* a record of a response carries its id as text under the external name only
IdExposed(r) ==
    /\ "id" \in DOMAIN r
    /\ r["id"].t = "str"
    /\ "_id" \notin DOMAIN r

-----------------------------------------------------------------------------
(* Properties *)

\* C1: verify_password never raises; on a stored hash that is malformed,
\* corrupt or of another format it returns False.
C1_VerifyNeverRaises ==
    (last.op = "verify_password" /\ last.arg.origin = "foreign")
        => (last.body.exc = "" /\ last.body.val = FALSE)

\* C2: after /register answered 201 for an email and a non-empty password p,
\* a later /login with that email and p is accepted.
C2_RegisteredLoginAccepted ==
    (/\ last.op = "login_user"
     /\ last.arg.password # <<>>
     /\ <<last.arg.email, last.arg.password>> \in registered)
        => last.status = 200

\* C3: a /login is accepted only when the password supplied equals the
\* password given at registration for that email.
C3_LoginOnlyWithRegisteredPassword ==
    (last.op = "login_user" /\ last.status = 200)
        => <<last.arg.email, last.arg.password>> \in registered

\* C4: an id-taking operation given an id that is not a well-formed identifier
\* answers the format error without having issued any storage call.
C4_MalformedIdNeverReachesStorage ==
    (last.op \in IdOps /\ ~ CanonicalId(last.arg))
        => (last.calls = <<>> /\ last.status = 400)

\* C5: in every id-taking operation a malformed id always yields 400 and never
\* 404, and a well-formed id with no matching record always yields 404 and
\* never 400.
C5_FormatErrorAndNotFoundDistinct ==
    last.op \in IdOps =>
        /\ ~ CanonicalId(last.arg) => last.status = 400
        /\ (/\ CanonicalId(last.arg)
            /\ ~ \E d \in CollectionOf(last.op) : OidToStr(d["_id"]) = last.arg)
              => last.status = 404

\* C6: the validity check, in PyObjectId's validator and in the endpoints,
\* accepts a string exactly when it is 24 characters each in 0-9a-f.
C6_ValidIffCanonical ==
    /\ last.op = "validate_object_id"
          => (last.body.t = "ObjectId" <=> CanonicalId(last.arg))
    /\ last.op \in IdOps
          => (last.status # 400 <=> CanonicalId(last.arg))

\* C7: parsing the wire string of a stored identifier gives the identifier
\* back, and the id string in the response for the record found with an
\* accepted id string s equals s.
C7_IdRoundTrip ==
    /\ \A d \in products \cup orders \cup reservations :
          ObjectId(OidToStr(d["_id"])) = d["_id"]
    /\ (last.op = "get_product_detail" /\ last.status = 200)
          => last.body["_id"].v = last.arg
    /\ (last.op = "get_single_order" /\ last.status = 200)
          => last.body["id"].v = last.arg

\* C8: no users document holds the plain-text password or its confirmation:
\* the document handed to insert_one has neither a password nor a confirm
\* key, and its credential field is hashed_password, a bcrypt hash (as text)
\* of a password registered for that email.
C8_NoPlaintextStored ==
    /\ \A d \in users :
          /\ DOMAIN d = {"_id", "email", "terminos", "hashed_password"}
          /\ d.hashed_password.t = "str"
          /\ ValidSalt(d.hashed_password)
          /\ \E c \in registered :
                /\ c[1] = d.email
                /\ verify_password(c[2], d.hashed_password) = Returned(TRUE)
    /\ (last.op = "register_user" /\ last.status = 201)
          => /\ DOMAIN last.body.sent = {"email", "terminos", "hashed_password"}
             /\ last.body.created_user \in users

\* C8's case: a document was stored by /register and a /login has read it
C8_Witness ==
    /\ users # {}
    /\ last.op = "login_user"
    /\ last.status = 200

\* C9: no document handed to insert_one carries an id under either name, and
\* every record a read path returns carries its id as text, renamed from
\* "_id" to "id".
C9_IdAliasing ==
    /\ (last.op \in CreateOps /\ last.status = 201)
          => ("_id" \notin DOMAIN last.arg /\ "id" \notin DOMAIN last.arg)
    /\ (last.op = "register_user" /\ last.status = 201)
          => ("_id" \notin DOMAIN last.body.sent /\ "id" \notin DOMAIN last.body.sent)
    /\ last.op \in ListOps
          => \A i \in DOMAIN last.body : IdExposed(last.body[i])
    /\ (last.op \in {"get_product_detail", "get_single_order"} /\ last.status = 200)
          => IdExposed(last.body)

\* C10: under any interleaving of /register requests the users collection
\* holds at most one document per email, and a request for an email already
\* stored is refused without an insert.
C10_EmailUnique ==
    /\ \A d1 \in users : \A d2 \in users : d1.email = d2.email => d1 = d2
    /\ (/\ last.op = "register_user"
        /\ last.status = 400
        /\ last.body = "El correo ya esta registrado")
          => last.calls = <<Call("find_one", "users")>>

=============================================================================
